---- MODULE Spec2Model ----
(***************************************************************************)
(* Control plane of android_camera.c: one Session (GstAhc), its worker     *)
(* thread (app_function) and the host threads that call the JNI entry      *)
(* points.  Every C statement that reads or writes a field shared between  *)
(* the two threads is one step, so that the interleavings of the unlocked  *)
(* accesses are explored.                                                  *)
(***************************************************************************)
EXTENDS Naturals, Sequences, FiniteSets, TLC

\* ---------------------------------------------------------------- bounds
\* Surface handles that ANativeWindow_fromSurface can hand out in one run.
MaxHandles == 2
\* Messages the bus can hold before the pipeline has to wait.
MaxBus == 2
\* Error messages the processing graph posts in one run.
MaxErrors == 1
\* End-of-stream messages the processing graph posts in one run.
MaxEos == 1
\* JNI calls the host makes in one run.
MaxCalls == 4

\* ------------------------------------------------------------- constants
GST_STATE_VOID_PENDING == 0
GST_STATE_NULL == 1
GST_STATE_READY == 2
GST_STATE_PAUSED == 3
GST_STATE_PLAYING == 4
\* A NULL ANativeWindow pointer.
NoWindow == 0
\* The caps property of a capsfilter nobody has configured.
NoCaps == <<>>
\* A property nobody has set.
Unset == 0
\* gst_app_thread before any pthread_create stored a thread in it.
NoThread == 0
\* gst_app_thread holding the worker thread of the Session.
OwnThread == 1
\* gst_app_thread holding the worker thread of a second Session.
OtherThread == 2
\* The geometries the host asks for.
Geometries == {<<640, 480>>}
\* The values the host passes to the parameter setters.
ParamValues == {1}

HostThreads == {"h1", "h2"}
\* The host thread that issues the serialized calls.
MainHost == "h1"

Handles == 1..MaxHandles

VARIABLES
  custom_data,  \* the Java object's native_custom_data: TRUE when it holds the
                \* GstAhc pointer, FALSE when it is NULL
  ahc,          \* the GstAhc block: a pointer field is TRUE when non-NULL
  obj,          \* the objects behind the pointers: the GMainLoop's running
                \* flag, the elements' properties, the pipeline's target and
                \* actual state, whether the worker dropped its references
  bus,          \* messages posted and not yet dispatched
  surf,         \* the platform's surfaces: handles handed out, releases of each
  mem,          \* the GstAhc block's life: freed, pthread_join and g_free calls
                \* made, a dereference after the free; the global
                \* gst_app_thread and the threads already joined; and what
                \* matters of a second Session: its block, its loop and its
                \* worker's position
  wpc,          \* the worker thread's position in app_function
  w_win,        \* the value of native_window the worker read at line 219
  hpc,          \* per host thread, its position in a JNI entry point
  crashed,      \* the process died
  obs           \* what the host and the environment have seen and done

vars == <<custom_data, ahc, obj, bus, surf, mem, wpc, w_win, hpc, crashed, obs>>

\* What is remembered of a thread's running injectSurface: the handle the field
\* held at entry, whether the rendering stage was bound to it, and whether the
\* acquisition yielded a null handle.
NoInject == [prev |-> NoWindow, bound |-> FALSE, failed |-> FALSE]

\* g_malloc0 (sizeof (GstAhc))
ZeroAhc ==
  [pipeline |-> FALSE, main_loop |-> FALSE, native_window |-> NoWindow,
   state |-> GST_STATE_VOID_PENDING, ahcsrc |-> FALSE, filter |-> FALSE,
   vsink |-> FALSE, initialized |-> FALSE]

Init ==
  /\ custom_data = FALSE
  /\ ahc = ZeroAhc
  /\ obj = [is_running |-> FALSE, destroyed |-> FALSE,
            window_handle |-> NoWindow, caps |-> NoCaps,
            wb |-> Unset, af |-> Unset, rot |-> Unset,
            target |-> GST_STATE_NULL, cur |-> GST_STATE_NULL]
  /\ bus = <<>>
  /\ surf = [acquired |-> 0, released |-> [h \in Handles |-> 0]]
  /\ mem = [freed |-> FALSE, joins |-> 0, frees |-> 0, uaf |-> FALSE,
            thread |-> NoThread, joined |-> {},
            other |-> [custom_data |-> FALSE, main_loop |-> FALSE,
                       is_running |-> FALSE, wpc |-> "unborn",
                       freed |-> FALSE]]
  /\ wpc = "unborn"
  /\ w_win = NoWindow
  /\ hpc = [t \in HostThreads |-> "idle"]
  /\ crashed = FALSE
  /\ obs = [started |-> FALSE, initCalls |-> 0, errCalls |-> 0,
            reported |-> GST_STATE_VOID_PENDING, everBoth |-> FALSE,
            errUnrecorded |-> FALSE, crReady |-> FALSE,
            stopReturned |-> FALSE, lateStop |-> FALSE,
            threadFailed |-> FALSE, raised |-> FALSE, pending |-> FALSE,
            subSeen |-> FALSE,
            inj |-> [t \in HostThreads |-> NoInject],
            errorsPosted |-> 0, eosPosted |-> 0, calls |-> 0]

\* ------------------------------------------------------------- helpers
Goto(t, l) == hpc' = [hpc EXCEPT ![t] = l]

\* A host thread is free to make another JNI call.
CanCall(t) == ~crashed /\ hpc[t] = "idle" /\ obs.calls < MaxCalls

\* One more JNI call was made.
Called(o) == [o EXCEPT !.calls = @ + 1]

\* A handle that was acquired and never released.
Live(h) == h # NoWindow /\ surf.released[h] = 0

\* ANativeWindow_release (w) on a non-NULL handle.
ANativeWindow_release(s, w) ==
  [s EXCEPT !.released[w] = @ + 1]

\* gst_element_set_state (ahc->pipeline, s): GStreamer refuses a NULL element
\* (g_return_val_if_fail) and otherwise records the requested target.
gst_element_set_state(o, s) ==
  IF ahc.pipeline /\ ~o.destroyed THEN [o EXCEPT !.target = s] ELSE o

\* gst_video_overlay_set_window_handle (ahc->vsink, w): refused on a NULL sink.
gst_video_overlay_set_window_handle(o, w) ==
  IF ahc.vsink THEN [o EXCEPT !.window_handle = w] ELSE o

\* The exception pending on the thread after CallVoidMethod and the handler's
\* if (ExceptionCheck) ExceptionClear, for a callback that raised or did not.
ExceptionCleared(exc) == IF exc THEN FALSE ELSE exc

\* A host callback was made: whether it raised, and what it left pending.
Callback(o, exc) ==
  [o EXCEPT !.raised = exc, !.pending = ExceptionCleared(exc)]

\* The condition of check_initialization_complete.
InitCond == ~ahc.initialized /\ ahc.native_window # NoWindow /\ ahc.main_loop

\* The body of check_initialization_complete once the condition held.
NotifyInitialized ==
  /\ ahc' = [ahc EXCEPT !.initialized = TRUE]
  /\ \E exc \in BOOLEAN :
       obs' = Callback([obs EXCEPT !.initCalls = @ + 1], exc)

\* The main loop and a live surface exist together in the next state.
NoteBoth(a, s) ==
  obs.everBoth
    \/ (a.main_loop /\ a.native_window # NoWindow
          /\ s.released[a.native_window] = 0)

\* A JNI entry point dereferences the GstAhc pointer it read at entry.
Deref == mem' = [mem EXCEPT !.uaf = @ \/ mem.freed]

StateChanged(src, new) == [type |-> "state-changed", src |-> src, new |-> new]
ErrorMsg == [type |-> "error", src |-> "child", new |-> GST_STATE_VOID_PENDING]
EosMsg == [type |-> "eos", src |-> "pipeline", new |-> GST_STATE_VOID_PENDING]

\* ------------------------------------------------- worker: app_function
app_function_make_ahcsrc ==
  /\ ~crashed /\ wpc = "w205"
  /\ ahc' = [ahc EXCEPT !.ahcsrc = TRUE]
  /\ wpc' = "w206"
  /\ UNCHANGED <<custom_data, obj, bus, surf, mem, w_win, hpc, crashed, obs>>

app_function_make_vsink ==
  /\ ~crashed /\ wpc = "w206"
  /\ ahc' = [ahc EXCEPT !.vsink = TRUE]
  /\ wpc' = "w207"
  /\ UNCHANGED <<custom_data, obj, bus, surf, mem, w_win, hpc, crashed, obs>>

app_function_make_filter ==
  /\ ~crashed /\ wpc = "w207"
  /\ ahc' = [ahc EXCEPT !.filter = TRUE]
  /\ wpc' = "w209"
  /\ UNCHANGED <<custom_data, obj, bus, surf, mem, w_win, hpc, crashed, obs>>

\* gst_pipeline_new, gst_bin_add_many, gst_element_link_many
app_function_make_pipeline ==
  /\ ~crashed /\ wpc = "w209"
  /\ ahc' = [ahc EXCEPT !.pipeline = TRUE]
  /\ wpc' = "w219"
  /\ UNCHANGED <<custom_data, obj, bus, surf, mem, w_win, hpc, crashed, obs>>

\* if (ahc->native_window)
app_function_test_window ==
  /\ ~crashed /\ wpc = "w219"
  /\ w_win' = ahc.native_window
  /\ wpc' = IF ahc.native_window # NoWindow THEN "w221" ELSE "w241"
  /\ UNCHANGED <<custom_data, ahc, obj, bus, surf, mem, hpc, crashed, obs>>

\* gst_video_overlay_set_window_handle (vsink, ahc->native_window): the field
\* is read without a lock, so the build may pass the value it read at line
\* 219 or read the field again.
app_function_bind_window ==
  /\ ~crashed /\ wpc = "w221"
  /\ \E w \in {w_win, ahc.native_window} :
       obj' = gst_video_overlay_set_window_handle(obj, w)
  /\ wpc' = "w241"
  /\ UNCHANGED <<custom_data, ahc, bus, surf, mem, w_win, hpc, crashed, obs>>

\* ahc->main_loop = g_main_loop_new (context, FALSE)
app_function_new_loop ==
  /\ ~crashed /\ wpc = "w241"
  /\ ahc' = [ahc EXCEPT !.main_loop = TRUE]
  /\ obj' = [obj EXCEPT !.is_running = FALSE]
  /\ obs' = [obs EXCEPT !.everBoth = NoteBoth(ahc', surf)]
  /\ wpc' = "w242"
  /\ UNCHANGED <<custom_data, bus, surf, mem, w_win, hpc, crashed>>

\* check_initialization_complete (ahc): the test
app_function_check_init ==
  /\ ~crashed /\ wpc = "w242"
  /\ wpc' = IF InitCond THEN "w181" ELSE "w243"
  /\ UNCHANGED <<custom_data, ahc, obj, bus, surf, mem, w_win, hpc, crashed, obs>>

\* check_initialization_complete (ahc): the flag and the callback
app_function_notify_init ==
  /\ ~crashed /\ wpc = "w181"
  /\ NotifyInitialized
  /\ wpc' = "w243"
  /\ UNCHANGED <<custom_data, obj, bus, surf, mem, w_win, hpc, crashed>>

\* g_main_loop_run (ahc->main_loop) sets the loop's running flag on entry.
app_function_run_loop ==
  /\ ~crashed /\ wpc = "w243"
  /\ obj' = [obj EXCEPT !.is_running = TRUE]
  /\ wpc' = "run"
  /\ UNCHANGED <<custom_data, ahc, bus, surf, mem, w_win, hpc, crashed, obs>>

\* The same handler without the test of the message's source.
state_changed_cb_unfiltered ==
  /\ ~crashed /\ wpc = "run" /\ obj.is_running
  /\ bus # <<>> /\ Head(bus).type = "state-changed"
  /\ bus' = Tail(bus)
  /\ ahc' = [ahc EXCEPT !.state = Head(bus).new]
  /\ \E exc \in BOOLEAN :
       obs' = Callback([obs EXCEPT
         !.reported = Head(bus).new,
         !.subSeen = @ \/ Head(bus).src # "pipeline",
         !.errUnrecorded = @ /\ Head(bus).new # GST_STATE_NULL], exc)
  /\ UNCHANGED <<custom_data, obj, surf, mem, wpc, w_win, hpc, crashed>>

\* g_main_loop_run: the handler of message::state-changed
state_changed_cb ==
  /\ ~crashed /\ wpc = "run" /\ obj.is_running
  /\ bus # <<>> /\ Head(bus).type = "state-changed"
  /\ bus' = Tail(bus)
  /\ IF Head(bus).src = "pipeline"
       THEN /\ ahc' = [ahc EXCEPT !.state = Head(bus).new]
            /\ \E exc \in BOOLEAN :
                 obs' = Callback([obs EXCEPT
                   !.reported = Head(bus).new,
                   !.errUnrecorded = @ /\ Head(bus).new # GST_STATE_NULL], exc)
       ELSE /\ obs' = [obs EXCEPT !.subSeen = TRUE]
            /\ UNCHANGED ahc
  /\ UNCHANGED <<custom_data, obj, surf, mem, wpc, w_win, hpc, crashed>>

\* The same handler tearing the pipeline down instead.
eos_cb_null ==
  /\ ~crashed /\ wpc = "run" /\ obj.is_running
  /\ bus # <<>> /\ Head(bus).type = "eos"
  /\ bus' = Tail(bus)
  /\ obj' = gst_element_set_state(obj, GST_STATE_NULL)
  /\ UNCHANGED <<custom_data, ahc, surf, mem, wpc, w_win, hpc, crashed, obs>>

\* g_main_loop_run: the handler of message::eos
eos_cb ==
  /\ ~crashed /\ wpc = "run" /\ obj.is_running
  /\ bus # <<>> /\ Head(bus).type = "eos"
  /\ bus' = Tail(bus)
  /\ obj' = gst_element_set_state(obj, GST_STATE_PAUSED)
  /\ UNCHANGED <<custom_data, ahc, surf, mem, wpc, w_win, hpc, crashed, obs>>

\* The same step in a handler that returns when the callback raised.
on_error_notify_return ==
  /\ ~crashed /\ wpc = "run" /\ obj.is_running
  /\ bus # <<>> /\ Head(bus).type = "error"
  /\ bus' = Tail(bus)
  /\ \E exc \in BOOLEAN :
       /\ obs' = Callback([obs EXCEPT !.errCalls = @ + 1], exc)
       /\ wpc' = IF exc THEN "run" ELSE "w139"
  /\ UNCHANGED <<custom_data, ahc, obj, surf, mem, w_win, hpc, crashed>>

\* g_main_loop_run: the handler of message::error, up to the onError callback
\* and the clearing of what it raised
on_error_notify ==
  /\ ~crashed /\ wpc = "run" /\ obj.is_running
  /\ bus # <<>> /\ Head(bus).type = "error"
  /\ bus' = Tail(bus)
  /\ \E exc \in BOOLEAN :
       obs' = Callback([obs EXCEPT !.errCalls = @ + 1], exc)
  /\ wpc' = "w139"
  /\ UNCHANGED <<custom_data, ahc, obj, surf, mem, w_win, hpc, crashed>>

\* The same step in a handler that also quits the main loop.
on_error_set_null_quit ==
  /\ ~crashed /\ wpc = "w139"
  /\ obj' = [gst_element_set_state(obj, GST_STATE_NULL) EXCEPT !.is_running = FALSE]
  /\ obs' = [obs EXCEPT !.errUnrecorded = (ahc.state # GST_STATE_NULL)]
  /\ wpc' = "run"
  /\ UNCHANGED <<custom_data, ahc, bus, surf, mem, w_win, hpc, crashed>>

\* on_error: gst_element_set_state (ahc->pipeline, GST_STATE_NULL)
on_error_set_null ==
  /\ ~crashed /\ wpc = "w139"
  /\ obj' = gst_element_set_state(obj, GST_STATE_NULL)
  /\ obs' = [obs EXCEPT !.errUnrecorded = (ahc.state # GST_STATE_NULL)]
  /\ wpc' = "run"
  /\ UNCHANGED <<custom_data, ahc, bus, surf, mem, w_win, hpc, crashed>>

\* g_main_loop_run returns once the running flag is cleared.
app_function_loop_exit ==
  /\ ~crashed /\ wpc = "run" /\ ~obj.is_running
  /\ wpc' = "w245"
  /\ UNCHANGED <<custom_data, ahc, obj, bus, surf, mem, w_win, hpc, crashed, obs>>

\* g_main_loop_unref (ahc->main_loop); ahc->main_loop = NULL
app_function_unref_loop ==
  /\ ~crashed /\ wpc = "w245"
  /\ ahc' = [ahc EXCEPT !.main_loop = FALSE]
  /\ wpc' = "w250"
  /\ UNCHANGED <<custom_data, obj, bus, surf, mem, w_win, hpc, crashed, obs>>

\* gst_element_set_state (ahc->pipeline, GST_STATE_NULL)
app_function_set_null ==
  /\ ~crashed /\ wpc = "w250"
  /\ obj' = gst_element_set_state(obj, GST_STATE_NULL)
  /\ wpc' = "w251"
  /\ UNCHANGED <<custom_data, ahc, bus, surf, mem, w_win, hpc, crashed, obs>>

\* gst_object_unref of vsink, filter, ahcsrc and pipeline; return NULL
app_function_unref_elements ==
  /\ ~crashed /\ wpc = "w251"
  /\ obj' = [obj EXCEPT !.destroyed = TRUE]
  /\ wpc' = "exited"
  /\ UNCHANGED <<custom_data, ahc, bus, surf, mem, w_win, hpc, crashed, obs>>

app_function ==
  \/ app_function_make_ahcsrc
  \/ app_function_make_vsink
  \/ app_function_make_filter
  \/ app_function_make_pipeline
  \/ app_function_test_window
  \/ app_function_bind_window
  \/ app_function_new_loop
  \/ app_function_check_init
  \/ app_function_notify_init
  \/ app_function_run_loop
  \/ state_changed_cb
  \/ eos_cb
  \/ on_error_notify
  \/ on_error_set_null
  \/ app_function_loop_exit
  \/ app_function_unref_loop
  \/ app_function_set_null
  \/ app_function_unref_elements

\* ------------------------------------------- the processing graph (GStreamer)
\* The pipeline moves one state towards its target and posts the new state.
PipelineAdvance ==
  /\ ~crashed /\ ahc.pipeline /\ ~obj.destroyed
  /\ obj.cur # obj.target /\ Len(bus) < MaxBus
  /\ LET n == IF obj.cur < obj.target THEN obj.cur + 1 ELSE obj.cur - 1
     IN /\ obj' = [obj EXCEPT !.cur = n]
        /\ bus' = Append(bus, StateChanged("pipeline", n))
  /\ UNCHANGED <<custom_data, ahc, surf, mem, wpc, w_win, hpc, crashed, obs>>

\* A stage of a pipeline in transition changes state and posts its new state.
PostChildStateChanged ==
  /\ ~crashed /\ ahc.pipeline /\ ~obj.destroyed
  /\ obj.cur # obj.target /\ Len(bus) < MaxBus
  /\ LET n == IF obj.cur < obj.target THEN obj.cur + 1 ELSE obj.cur - 1
     IN bus' = Append(bus, StateChanged("child", n))
  /\ UNCHANGED <<custom_data, ahc, obj, surf, mem, wpc, w_win, hpc, crashed, obs>>

\* A stage of a pipeline that left NULL fails and posts an error.
PostError ==
  /\ ~crashed /\ ahc.pipeline /\ ~obj.destroyed
  /\ obj.cur > GST_STATE_NULL
  /\ obs.errorsPosted < MaxErrors /\ Len(bus) < MaxBus
  /\ bus' = Append(bus, ErrorMsg)
  /\ obs' = [obs EXCEPT !.errorsPosted = @ + 1]
  /\ UNCHANGED <<custom_data, ahc, obj, surf, mem, wpc, w_win, hpc, crashed>>

\* A playing pipeline runs out of data and posts end-of-stream.
PostEos ==
  /\ ~crashed /\ ahc.pipeline /\ ~obj.destroyed
  /\ obj.cur = GST_STATE_PLAYING
  /\ obs.eosPosted < MaxEos /\ Len(bus) < MaxBus
  /\ bus' = Append(bus, EosMsg)
  /\ obs' = [obs EXCEPT !.eosPosted = @ + 1]
  /\ UNCHANGED <<custom_data, ahc, obj, surf, mem, wpc, w_win, hpc, crashed>>

\* ------------------------------------------------ host: JNI entry points
\* gst_native_init: the block is allocated zeroed and stored in the Java
\* object, and pthread_create is called: it starts the worker and stores its
\* id in gst_app_thread, or fails.  Its result is not looked at.
gst_native_init(t) ==
  /\ CanCall(t) /\ ~obs.started
  /\ custom_data' = TRUE
  /\ ahc' = ZeroAhc
  /\ \E ok \in BOOLEAN :
       /\ wpc' = IF ok THEN "w205" ELSE wpc
       /\ mem' = IF ok THEN [mem EXCEPT !.thread = OwnThread] ELSE mem
       /\ obs' = Called([obs EXCEPT !.started = TRUE, !.threadFailed = ~ok])
  /\ UNCHANGED <<obj, bus, surf, w_win, hpc, crashed>>

\* gst_native_finalize: data = GET_CUSTOM_DATA; if (!data) return
gst_native_finalize_enter(t) ==
  /\ CanCall(t)
  /\ IF custom_data
       THEN Goto(t, "f282") /\ obs' = Called(obs)
       ELSE /\ obs' = Called([obs EXCEPT !.lateStop = @ \/ obs.stopReturned])
            /\ UNCHANGED hpc
  /\ UNCHANGED <<custom_data, ahc, obj, bus, surf, mem, wpc, w_win, crashed>>

\* g_main_loop_quit (data->main_loop): GLib refuses a NULL loop
\* (g_return_if_fail) and otherwise clears the loop's running flag.
gst_native_finalize_quit(t) ==
  /\ ~crashed /\ hpc[t] = "f282"
  /\ obj' = IF ahc.main_loop THEN [obj EXCEPT !.is_running = FALSE] ELSE obj
  /\ Deref
  /\ Goto(t, "f284")
  /\ UNCHANGED <<custom_data, ahc, bus, surf, wpc, w_win, crashed, obs>>

\* The thread gst_app_thread names has exited.
ThreadExited ==
  IF mem.thread = OwnThread THEN wpc = "exited" ELSE mem.other.wpc = "exited"

\* pthread_join (gst_app_thread, NULL) returns once the thread gst_app_thread
\* names has exited.  Joining a value that names no thread, or a thread that
\* was joined before, is undefined: the call returns with an error or the
\* process dies.
pthread_join ==
  /\ IF mem.thread = NoThread \/ mem.thread \in mem.joined
       THEN crashed' \in BOOLEAN
       ELSE ThreadExited /\ UNCHANGED crashed
  /\ mem' = [mem EXCEPT !.joins = @ + 1, !.joined = @ \cup {mem.thread}]

gst_native_finalize_join(t) ==
  /\ ~crashed /\ hpc[t] = "f284"
  /\ pthread_join
  /\ Goto(t, "f286")
  /\ UNCHANGED <<custom_data, ahc, obj, bus, surf, wpc, w_win, obs>>

\* DeleteGlobalRef (data->app); g_free (data)
gst_native_finalize_free(t) ==
  /\ ~crashed /\ hpc[t] = "f286"
  /\ mem' = [mem EXCEPT !.frees = @ + 1, !.freed = TRUE, !.uaf = @ \/ mem.freed]
  /\ Goto(t, "f289")
  /\ UNCHANGED <<custom_data, ahc, obj, bus, surf, wpc, w_win, crashed, obs>>

\* The same step without the SET_CUSTOM_DATA (..., NULL) of line 289.
gst_native_finalize_clear_kept(t) ==
  /\ ~crashed /\ hpc[t] = "f289"
  /\ obs' = [obs EXCEPT !.stopReturned = TRUE]
  /\ Goto(t, "idle")
  /\ UNCHANGED <<custom_data, ahc, obj, bus, surf, mem, wpc, w_win, crashed>>

\* SET_CUSTOM_DATA (env, thiz, native_android_camera_field_id, NULL); return
gst_native_finalize_clear(t) ==
  /\ ~crashed /\ hpc[t] = "f289"
  /\ custom_data' = FALSE
  /\ obs' = [obs EXCEPT !.stopReturned = TRUE]
  /\ Goto(t, "idle")
  /\ UNCHANGED <<ahc, obj, bus, surf, mem, wpc, w_win, crashed>>

gst_native_finalize(t) ==
  \/ gst_native_finalize_enter(t)
  \/ gst_native_finalize_quit(t)
  \/ gst_native_finalize_join(t)
  \/ gst_native_finalize_free(t)
  \/ gst_native_finalize_clear(t)

\* gst_native_play
gst_native_play(t) ==
  /\ CanCall(t)
  /\ IF custom_data
       THEN obj' = gst_element_set_state(obj, GST_STATE_PLAYING) /\ Deref
       ELSE UNCHANGED <<obj, mem>>
  /\ obs' = Called(obs)
  /\ UNCHANGED <<custom_data, ahc, bus, surf, wpc, w_win, hpc, crashed>>

\* gst_native_pause
gst_native_pause(t) ==
  /\ CanCall(t)
  /\ IF custom_data
       THEN obj' = gst_element_set_state(obj, GST_STATE_PAUSED) /\ Deref
       ELSE UNCHANGED <<obj, mem>>
  /\ obs' = Called(obs)
  /\ UNCHANGED <<custom_data, ahc, bus, surf, wpc, w_win, hpc, crashed>>

\* gst_native_surface_init: ahc = GET_CUSTOM_DATA; if (!ahc) return
gst_native_surface_init_enter(t) ==
  /\ CanCall(t)
  /\ IF custom_data
       THEN /\ Goto(t, "s352")
            /\ obs' = Called([obs EXCEPT !.inj[t] =
                 [prev |-> ahc.native_window,
                  bound |-> ahc.native_window # NoWindow
                              /\ obj.window_handle = ahc.native_window
                              /\ Live(ahc.native_window),
                  failed |-> FALSE]])
       ELSE UNCHANGED hpc /\ obs' = Called(obs)
  /\ UNCHANGED <<custom_data, ahc, obj, bus, surf, mem, wpc, w_win, crashed>>

\* if (ahc->native_window) ANativeWindow_release (ahc->native_window)
gst_native_surface_init_release(t) ==
  /\ ~crashed /\ hpc[t] = "s352"
  /\ surf' = IF ahc.native_window # NoWindow
               THEN ANativeWindow_release(surf, ahc.native_window)
               ELSE surf
  /\ Deref
  /\ Goto(t, "s356")
  /\ UNCHANGED <<custom_data, ahc, obj, bus, wpc, w_win, crashed, obs>>

\* The same step keeping the previous handle in the field when the token
\* yields none.
gst_native_surface_init_acquire_keep(t) ==
  /\ ~crashed /\ hpc[t] = "s356"
  /\ \E ok \in BOOLEAN :
       /\ ok => surf.acquired < MaxHandles
       /\ surf' = [surf EXCEPT !.acquired = IF ok THEN @ + 1 ELSE @]
       /\ ahc' = [ahc EXCEPT !.native_window =
                    IF ok THEN surf.acquired + 1 ELSE @]
       /\ obs' = [obs EXCEPT !.everBoth = NoteBoth(ahc', surf'),
                             !.inj[t].failed = ~ok]
  /\ Deref
  /\ Goto(t, "s359")
  /\ UNCHANGED <<custom_data, obj, bus, wpc, w_win, crashed>>

\* ahc->native_window = ANativeWindow_fromSurface (env, surface): a fresh
\* handle, or NULL when the token yields none.
gst_native_surface_init_acquire(t) ==
  /\ ~crashed /\ hpc[t] = "s356"
  /\ \E ok \in BOOLEAN :
       /\ ok => surf.acquired < MaxHandles
       /\ surf' = [surf EXCEPT !.acquired = IF ok THEN @ + 1 ELSE @]
       /\ ahc' = [ahc EXCEPT !.native_window =
                    IF ok THEN surf.acquired + 1 ELSE NoWindow]
       /\ obs' = [obs EXCEPT !.everBoth = NoteBoth(ahc', surf'),
                             !.inj[t].failed = ~ok]
  /\ Deref
  /\ Goto(t, "s359")
  /\ UNCHANGED <<custom_data, obj, bus, wpc, w_win, crashed>>

\* if (ahc->vsink) gst_video_overlay_set_window_handle (vsink, native_window)
gst_native_surface_init_bind(t) ==
  /\ ~crashed /\ hpc[t] = "s359"
  /\ obj' = gst_video_overlay_set_window_handle(obj, ahc.native_window)
  /\ Deref
  /\ Goto(t, "s369")
  /\ UNCHANGED <<custom_data, ahc, bus, surf, wpc, w_win, crashed, obs>>

\* check_initialization_complete (ahc): the test
gst_native_surface_init_check_init(t) ==
  /\ ~crashed /\ hpc[t] = "s369"
  /\ Goto(t, IF InitCond THEN "s181" ELSE "idle")
  /\ obs' = IF InitCond THEN obs ELSE [obs EXCEPT !.inj[t] = NoInject]
  /\ Deref
  /\ UNCHANGED <<custom_data, ahc, obj, bus, surf, wpc, w_win, crashed>>

\* check_initialization_complete (ahc): the flag and the callback
gst_native_surface_init_notify_init(t) ==
  /\ ~crashed /\ hpc[t] = "s181"
  /\ ahc' = [ahc EXCEPT !.initialized = TRUE]
  /\ \E exc \in BOOLEAN :
       obs' = Callback([obs EXCEPT !.initCalls = @ + 1, !.inj[t] = NoInject], exc)
  /\ Deref
  /\ Goto(t, "idle")
  /\ UNCHANGED <<custom_data, obj, bus, surf, wpc, w_win, crashed>>

gst_native_surface_init(t) ==
  \/ gst_native_surface_init_enter(t)
  \/ gst_native_surface_init_release(t)
  \/ gst_native_surface_init_acquire(t)
  \/ gst_native_surface_init_bind(t)
  \/ gst_native_surface_init_check_init(t)
  \/ gst_native_surface_init_notify_init(t)

\* gst_native_surface_finalize: data = GET_CUSTOM_DATA; if (!data) return
gst_native_surface_finalize_enter(t) ==
  /\ CanCall(t)
  /\ IF custom_data THEN Goto(t, "s382") ELSE UNCHANGED hpc
  /\ obs' = Called(obs)
  /\ UNCHANGED <<custom_data, ahc, obj, bus, surf, mem, wpc, w_win, crashed>>

\* ANativeWindow_release (data->native_window): the field is not tested, and
\* releasing a NULL window is undefined: the call returns or the process dies.
gst_native_surface_finalize_release(t) ==
  /\ ~crashed /\ hpc[t] = "s382"
  /\ IF ahc.native_window # NoWindow
       THEN /\ surf' = ANativeWindow_release(surf, ahc.native_window)
            /\ UNCHANGED crashed
       ELSE /\ crashed' \in BOOLEAN
            /\ UNCHANGED surf
  /\ Deref
  /\ Goto(t, "s383")
  /\ UNCHANGED <<custom_data, ahc, obj, bus, wpc, w_win, obs>>

\* data->native_window = NULL
gst_native_surface_finalize_clear(t) ==
  /\ ~crashed /\ hpc[t] = "s383"
  /\ ahc' = [ahc EXCEPT !.native_window = NoWindow]
  /\ Deref
  /\ Goto(t, "s385")
  /\ UNCHANGED <<custom_data, obj, bus, surf, wpc, w_win, crashed, obs>>

\* gst_video_overlay_set_window_handle (data->vsink, NULL)
gst_native_surface_finalize_unbind(t) ==
  /\ ~crashed /\ hpc[t] = "s385"
  /\ obj' = gst_video_overlay_set_window_handle(obj, NoWindow)
  /\ Deref
  /\ Goto(t, "idle")
  /\ UNCHANGED <<custom_data, ahc, bus, surf, wpc, w_win, crashed, obs>>

gst_native_surface_finalize(t) ==
  \/ gst_native_surface_finalize_enter(t)
  \/ gst_native_surface_finalize_release(t)
  \/ gst_native_surface_finalize_clear(t)
  \/ gst_native_surface_finalize_unbind(t)

\* gst_native_change_resolution: gst_element_set_state (pipeline, READY)
gst_native_change_resolution_ready(t) ==
  /\ CanCall(t)
  /\ IF custom_data
       THEN /\ obj' = gst_element_set_state(obj, GST_STATE_READY)
            /\ obs' = Called([obs EXCEPT !.crReady = ahc.pipeline /\ ~obj.destroyed])
            /\ Deref
            /\ Goto(t, "c405")
       ELSE UNCHANGED <<obj, mem, hpc>> /\ obs' = Called(obs)
  /\ UNCHANGED <<custom_data, ahc, bus, surf, wpc, w_win, crashed>>

\* g_object_set (ahc->filter, "caps", new_caps, NULL): GObject refuses a NULL
\* object (g_return_if_fail).
gst_native_change_resolution_caps(t) ==
  /\ ~crashed /\ hpc[t] = "c405"
  /\ \E g \in Geometries :
       obj' = IF ahc.filter /\ ~obj.destroyed THEN [obj EXCEPT !.caps = g] ELSE obj
  /\ Deref
  /\ Goto(t, "c411")
  /\ UNCHANGED <<custom_data, ahc, bus, surf, wpc, w_win, crashed, obs>>

\* gst_element_set_state (ahc->pipeline, GST_STATE_PAUSED)
gst_native_change_resolution_paused(t) ==
  /\ ~crashed /\ hpc[t] = "c411"
  /\ obj' = gst_element_set_state(obj, GST_STATE_PAUSED)
  /\ obs' = [obs EXCEPT !.crReady = FALSE]
  /\ Deref
  /\ Goto(t, "idle")
  /\ UNCHANGED <<custom_data, ahc, bus, surf, wpc, w_win, crashed>>

gst_native_change_resolution(t) ==
  \/ gst_native_change_resolution_ready(t)
  \/ gst_native_change_resolution_caps(t)
  \/ gst_native_change_resolution_paused(t)

\* g_object_set (ahc->ahcsrc, GST_PHOTOGRAPHY_PROP_WB_MODE, wb_mode, NULL)
gst_native_set_white_balance(t) ==
  /\ CanCall(t)
  /\ IF custom_data
       THEN /\ \E v \in ParamValues :
                 obj' = IF ahc.ahcsrc /\ ~obj.destroyed
                          THEN [obj EXCEPT !.wb = v] ELSE obj
            /\ Deref
       ELSE UNCHANGED <<obj, mem>>
  /\ obs' = Called(obs)
  /\ UNCHANGED <<custom_data, ahc, bus, surf, wpc, w_win, hpc, crashed>>

\* gst_photography_set_autofocus (GST_PHOTOGRAPHY (ahc->ahcsrc), enabled)
gst_native_set_auto_focus(t) ==
  /\ CanCall(t)
  /\ IF custom_data
       THEN /\ \E v \in ParamValues :
                 obj' = IF ahc.ahcsrc /\ ~obj.destroyed
                          THEN [obj EXCEPT !.af = v] ELSE obj
            /\ Deref
       ELSE UNCHANGED <<obj, mem>>
  /\ obs' = Called(obs)
  /\ UNCHANGED <<custom_data, ahc, bus, surf, wpc, w_win, hpc, crashed>>

\* g_object_set (ahc->vsink, "rotate-method", method, NULL)
gst_native_set_rotate_method(t) ==
  /\ CanCall(t)
  /\ IF custom_data
       THEN /\ \E v \in ParamValues :
                 obj' = IF ahc.vsink /\ ~obj.destroyed
                          THEN [obj EXCEPT !.rot = v] ELSE obj
            /\ Deref
       ELSE UNCHANGED <<obj, mem>>
  /\ obs' = Called(obs)
  /\ UNCHANGED <<custom_data, ahc, bus, surf, wpc, w_win, hpc, crashed>>

\* ------------------------------------------------------ a second Session
\* gst_native_init on a second Java object: its own zeroed block, and a
\* worker thread whose id is stored in the same gst_app_thread.
other_gst_native_init(t) ==
  /\ CanCall(t) /\ mem.other.wpc = "unborn"
  /\ mem' = [mem EXCEPT !.thread = OtherThread,
                        !.other.custom_data = TRUE, !.other.wpc = "w241"]
  /\ obs' = Called(obs)
  /\ UNCHANGED <<custom_data, ahc, obj, bus, surf, wpc, w_win, hpc, crashed>>

\* Its worker: construction, then ahc->main_loop = g_main_loop_new (...)
other_app_function_new_loop ==
  /\ ~crashed /\ mem.other.wpc = "w241"
  /\ mem' = [mem EXCEPT !.other.main_loop = TRUE, !.other.is_running = FALSE,
                        !.other.wpc = "w243"]
  /\ UNCHANGED <<custom_data, ahc, obj, bus, surf, wpc, w_win, hpc, crashed, obs>>

\* Its worker: g_main_loop_run sets the loop's running flag on entry.
other_app_function_run_loop ==
  /\ ~crashed /\ mem.other.wpc = "w243"
  /\ mem' = [mem EXCEPT !.other.is_running = TRUE, !.other.wpc = "run"]
  /\ UNCHANGED <<custom_data, ahc, obj, bus, surf, wpc, w_win, hpc, crashed, obs>>

\* Its worker: g_main_loop_run returns once the flag is cleared; teardown.
other_app_function_exit ==
  /\ ~crashed /\ mem.other.wpc = "run" /\ ~mem.other.is_running
  /\ mem' = [mem EXCEPT !.other.main_loop = FALSE, !.other.wpc = "exited"]
  /\ UNCHANGED <<custom_data, ahc, obj, bus, surf, wpc, w_win, hpc, crashed, obs>>

other_app_function ==
  \/ other_app_function_new_loop
  \/ other_app_function_run_loop
  \/ other_app_function_exit

\* gst_native_finalize on the second Java object: the entry test
other_gst_native_finalize_enter(t) ==
  /\ CanCall(t)
  /\ IF mem.other.custom_data THEN Goto(t, "o282") ELSE UNCHANGED hpc
  /\ obs' = Called(obs)
  /\ UNCHANGED <<custom_data, ahc, obj, bus, surf, mem, wpc, w_win, crashed>>

\* g_main_loop_quit (data->main_loop)
other_gst_native_finalize_quit(t) ==
  /\ ~crashed /\ hpc[t] = "o282"
  /\ mem' = IF mem.other.main_loop
              THEN [mem EXCEPT !.other.is_running = FALSE] ELSE mem
  /\ Goto(t, "o284")
  /\ UNCHANGED <<custom_data, ahc, obj, bus, surf, wpc, w_win, crashed, obs>>

\* pthread_join (gst_app_thread, NULL)
other_gst_native_finalize_join(t) ==
  /\ ~crashed /\ hpc[t] = "o284"
  /\ pthread_join
  /\ Goto(t, "o286")
  /\ UNCHANGED <<custom_data, ahc, obj, bus, surf, wpc, w_win, obs>>

\* g_free (data); SET_CUSTOM_DATA (..., NULL)
other_gst_native_finalize_free(t) ==
  /\ ~crashed /\ hpc[t] = "o286"
  /\ mem' = [mem EXCEPT !.other.freed = TRUE, !.other.custom_data = FALSE]
  /\ Goto(t, "idle")
  /\ UNCHANGED <<custom_data, ahc, obj, bus, surf, wpc, w_win, crashed, obs>>

other_gst_native_finalize(t) ==
  \/ other_gst_native_finalize_enter(t)
  \/ other_gst_native_finalize_quit(t)
  \/ other_gst_native_finalize_join(t)
  \/ other_gst_native_finalize_free(t)

\* ------------------------------------------------------- specification
HostCall(t) ==
  \/ gst_native_init(t)
  \/ gst_native_finalize(t)
  \/ gst_native_play(t)
  \/ gst_native_pause(t)
  \/ gst_native_surface_init(t)
  \/ gst_native_surface_finalize(t)
  \/ gst_native_change_resolution(t)
  \/ gst_native_set_white_balance(t)
  \/ gst_native_set_auto_focus(t)
  \/ gst_native_set_rotate_method(t)

Next ==
  \/ app_function
  \/ PipelineAdvance
  \/ PostError
  \/ PostEos
  \/ HostCall(MainHost)

Spec == Init /\ [][Next]_vars

\* The host thread that delivers the surface callbacks.
SurfaceHost == "h2"

\* The serialized calls of one host thread, with injectSurface and
\* retractSurface also arriving on a second thread.
ConcurrentNext ==
  \/ Next
  \/ gst_native_surface_init(SurfaceHost)
  \/ gst_native_surface_finalize(SurfaceHost)

ConcurrentSpec == Init /\ [][ConcurrentNext]_vars

\* The steps of gst_native_finalize after its entry test.
FinalizeBody(t) ==
  \/ gst_native_finalize_quit(t)
  \/ gst_native_finalize_join(t)
  \/ gst_native_finalize_free(t)
  \/ gst_native_finalize_clear(t)

\* Fair scheduling of both threads: the worker thread keeps running
\* app_function while it has a step to take, and a host thread that entered
\* gst_native_finalize keeps running it.
FairSpec ==
  Spec /\ WF_vars(app_function) /\ WF_vars(FinalizeBody(MainHost))

\* app_function in a Session that is given no surface: the worker goes
\* straight from construction into its loop and dispatches the bus.
WorkerLoop ==
  \/ app_function_make_ahcsrc
  \/ app_function_make_vsink
  \/ app_function_make_filter
  \/ app_function_make_pipeline
  \/ app_function_test_window
  \/ app_function_new_loop
  \/ app_function_check_init
  \/ app_function_run_loop
  \/ state_changed_cb
  \/ eos_cb
  \/ on_error_notify
  \/ on_error_set_null

\* app_function once the loop was quit.
WorkerExit ==
  \/ app_function_loop_exit
  \/ app_function_unref_loop
  \/ app_function_set_null
  \/ app_function_unref_elements

\* A host that starts, plays, pauses and stops.
PlaybackNext ==
  \/ WorkerLoop
  \/ WorkerExit
  \/ PipelineAdvance
  \/ PostError
  \/ PostEos
  \/ gst_native_init(MainHost)
  \/ gst_native_finalize(MainHost)
  \/ gst_native_play(MainHost)
  \/ gst_native_pause(MainHost)

\* Fair scheduling of both threads and a processing graph that carries out
\* the transitions it was asked for.
LiveSpec ==
  /\ Init /\ [][PlaybackNext]_vars
  /\ WF_vars(app_function) /\ WF_vars(FinalizeBody(MainHost))
  /\ WF_vars(PipelineAdvance)

\* A Session that is started and driven by requestPlay, requestPause and
\* reconfigure (it is given no surface and is not stopped, so the worker goes
\* straight from construction into its loop and stays there), over a
\* processing graph whose stages post their own state changes.
EventNext ==
  \/ WorkerLoop
  \/ PipelineAdvance
  \/ PostChildStateChanged
  \/ PostError
  \/ PostEos
  \/ gst_native_init(MainHost)
  \/ gst_native_play(MainHost)
  \/ gst_native_pause(MainHost)
  \/ gst_native_change_resolution(MainHost)

EventSpec == Init /\ [][EventNext]_vars

\* Two Sessions in one process, started and stopped by the same host thread.
TwoSessionNext ==
  \/ Next
  \/ other_gst_native_init(MainHost)
  \/ other_app_function
  \/ other_gst_native_finalize(MainHost)

TwoSessionSpec == Init /\ [][TwoSessionNext]_vars

\* ------------------------------------------------------------- claims
\* Both threads are past the readiness check that follows their own write.
ChecksDone ==
  /\ hpc[MainHost] \notin {"s359", "s369", "s181"}
  /\ wpc \notin {"w242", "w181"}

\* C1: onInitialized is delivered at most once; it is delivered only if the
\* main loop and a live surface existed at the same time, and in that case it
\* has been delivered once both threads have run their readiness checks.
C1_InitializedExactlyOnce ==
  /\ obs.initCalls <= 1
  /\ obs.initCalls >= 1 => obs.everBoth
  /\ (obs.everBoth /\ ChecksDone) => obs.initCalls >= 1

\* C2: a stop() that got past its entry test eventually returns, with the
\* worker thread exited.
C2_StopReturns ==
  (hpc[MainHost] = "f282") ~> (obs.stopReturned /\ wpc = "exited")

\* The rendering stage is bound to no handle or to one that was not released.
BoundHandleLive ==
  obj.window_handle = NoWindow \/ surf.released[obj.window_handle] = 0

\* C3: on a Session whose pipeline exists, an injectSurface that replaces a
\* held handle releases it once and never leaves the rendering stage bound to
\* the released handle.
C3_ReplacedHandleNeverLeftBound ==
  /\ \A h \in Handles : surf.released[h] <= 1
  /\ (/\ ahc.pipeline /\ wpc \notin {"w219", "w221"}
      /\ hpc[MainHost] \in {"s356", "s359", "s369", "s181"})
       => BoundHandleLive

\* C4: the handle bound to the rendering stage is never a released one; in
\* particular, whenever the worker's construction step binds the handle it
\* read from the surface field, that handle is null or has not been released.
C4_WorkerBindsLiveHandle ==
  [][app_function_bind_window => BoundHandleLive']_vars

\* A host request for a target state reaches an existing pipeline.
HostRequestApplied ==
  /\ custom_data /\ ahc.pipeline /\ ~obj.destroyed
  /\ \/ gst_native_play(MainHost)
     \/ gst_native_pause(MainHost)
     \/ gst_native_change_resolution_ready(MainHost)

\* C5: once the worker has handled an error, no target state the host requests
\* afterwards is applied to the pipeline before NULL has been recorded in the
\* state field and reported through onStateChanged.
C5_NullRecordedBeforeNextRequest ==
  [][HostRequestApplied => ~obs.errUnrecorded]_vars

\* C6: a control request made before the object it targets exists leaves no
\* trace: while the pipeline does not exist no target state was requested and
\* no geometry was applied, and a stage that does not exist had no property
\* set.
C6_RequestsBeforeConstructionAreNoOps ==
  /\ ~ahc.pipeline => (obj.target = GST_STATE_NULL /\ obj.caps = NoCaps)
  /\ ~ahc.ahcsrc => (obj.wb = Unset /\ obj.af = Unset)
  /\ ~ahc.vsink => obj.rot = Unset

\* C7: once stop() has returned, a later stop() does nothing: the worker was
\* joined once, the Session freed once and never dereferenced afterwards, and
\* the host is never again inside the body of gst_native_finalize.
C7_SecondStopIsNoOp ==
  obs.stopReturned =>
    /\ mem.joins = 1 /\ mem.frees = 1 /\ ~mem.uaf
    /\ hpc[MainHost] \notin {"f282", "f284", "f286", "f289"}

\* A second stop() was called after the first had returned.
C7_SecondStopCalled ==
  obs.lateStop /\ mem.joins = 1 /\ hpc[MainHost] = "idle"

\* The host is inside a call that is replacing or retracting the surface.
SurfaceCallPending ==
  hpc[MainHost] \in {"s352", "s356", "s359", "s382", "s383", "s385"}

\* C8: once injectSurface has returned, the surface it supplied is bound to the
\* rendering stage by the time the pipeline has reached PAUSED.
C8_SurfaceBoundBeforePaused ==
  (/\ obj.cur >= GST_STATE_PAUSED
   /\ ~SurfaceCallPending
   /\ Live(ahc.native_window))
    => obj.window_handle = ahc.native_window

\* C9: between the READY request of a reconfigure and its closing PAUSED
\* request nobody else changes the pipeline's target state.
C9_ReconfigureAtomic ==
  (hpc[MainHost] \in {"c405", "c411"} /\ obs.crReady)
    => obj.target = GST_STATE_READY

\* injectSurface has done its work after acquiring a null handle while the
\* rendering stage was bound to a live handle held by the Session.
FailedInjectOverBound ==
  /\ hpc[MainHost] \in {"s369", "s181"}
  /\ obs.inj[MainHost].failed /\ obs.inj[MainHost].bound

\* C10 as stated: an injectSurface that acquires a null handle leaves the held
\* handle unreleased, in the surface field, and bound to the rendering stage.
C10_FailedInjectKeepsSurface ==
  FailedInjectOverBound =>
    /\ surf.released[obs.inj[MainHost].prev] = 0
    /\ ahc.native_window = obs.inj[MainHost].prev
    /\ obj.window_handle = obs.inj[MainHost].prev

\* C10 as amended: an injectSurface that acquires a null handle has released
\* the held handle once and left the surface field null, and its binding step
\* binds the rendering stage to the null handle.
C10_FailedInjectDropsSurface ==
  /\ [](FailedInjectOverBound =>
          /\ surf.released[obs.inj[MainHost].prev] = 1
          /\ ahc.native_window = NoWindow)
  /\ [][(/\ gst_native_surface_init_bind(MainHost)
         /\ obs.inj[MainHost].failed /\ obs.inj[MainHost].bound)
          => obj'.window_handle = NoWindow]_vars

\* Such an injectSurface has run up to its readiness check.
C10_FailedInjectRan ==
  FailedInjectOverBound /\ hpc[MainHost] = "s369"

\* C11: every handle acquired by injectSurface is released exactly once over
\* the life of the Session: no handle is released twice, and once stop() has
\* returned every handle that was acquired has been released.
C11_HandleReleasedExactlyOnce ==
  /\ \A h \in Handles : surf.released[h] <= 1
  /\ obs.stopReturned => \A h \in 1..surf.acquired : surf.released[h] = 1

\* A step that delivers onStateChanged, onError or onInitialized to the host.
Notifies ==
  \/ state_changed_cb /\ Head(bus).src = "pipeline"
  \/ on_error_notify
  \/ app_function_notify_init
  \/ \E t \in HostThreads : gst_native_surface_init_notify_init(t)

\* C12: when stop() of a Session whose worker was created has returned, the
\* worker thread has exited and the last target state requested of the
\* pipeline is NULL, and no step after that delivers onStateChanged, onError
\* or onInitialized.
C12_NothingAfterStop ==
  /\ []((obs.stopReturned /\ ~obs.threadFailed)
          => (wpc = "exited" /\ obj.target = GST_STATE_NULL))
  /\ [][obs.stopReturned => ~Notifies]_vars

\* C13: a start() whose thread creation failed leaves no Session installed in
\* the host object, so that no later stop() gets past its entry test.
C13_FailedStartInstallsNothing ==
  obs.threadFailed =>
    /\ ~custom_data
    /\ hpc[MainHost] \notin {"f282", "f284", "f286", "f289"}

\* Every error the graph posts has been handled (onError delivered, NULL
\* requested), PLAYING was requested afterwards and the host makes no further
\* call.
PlayRequestedAfterError ==
  /\ ~crashed /\ custom_data /\ ahc.pipeline
  /\ obs.errorsPosted = MaxErrors /\ obs.errCalls = obs.errorsPosted
  /\ wpc # "w139"
  /\ obj.target = GST_STATE_PLAYING
  /\ hpc[MainHost] = "idle" /\ obs.calls = MaxCalls

\* PLAYING is recorded in the state field and was reported to the host.
PlayingRecorded ==
  ahc.state = GST_STATE_PLAYING /\ obs.reported = GST_STATE_PLAYING

\* C14: after an error has been handled, a requestPlay that nothing
\* countermands eventually leads to PLAYING being recorded in the state field
\* and reported through onStateChanged.
C14_PlayAfterErrorReachesPlaying ==
  PlayRequestedAfterError ~> PlayingRecorded

\* PLAYING was recorded after NULL had been recorded after the error.
C14_ReplayedAfterError ==
  /\ PlayRequestedAfterError /\ PlayingRecorded
  /\ ~obs.errUnrecorded /\ obj.cur = GST_STATE_PLAYING /\ bus = <<>>

\* C15: when a host callback raises, the handler that made it leaves nothing
\* pending on its thread and still does the rest of its work: the error handler
\* goes on to request NULL, the readiness flag is set, and the worker is back
\* in its loop (or on its way into it) with the process alive.
C15_RaisedCallbackCleared ==
  /\ [](~obs.pending)
  /\ [][(Notifies /\ obs'.raised) =>
          /\ ~crashed'
          /\ on_error_notify => wpc' = "w139"
          /\ state_changed_cb => (wpc' = "run" /\ obj'.is_running = obj.is_running)
          /\ app_function_notify_init => (wpc' = "w243" /\ ahc'.initialized)
          /\ \A t \in HostThreads :
               gst_native_surface_init_notify_init(t) => ahc'.initialized]_vars
  /\ [][on_error_set_null => obj'.target = GST_STATE_NULL]_vars

\* onError raised and the error handler is about to request NULL.
C15_ErrorHandlerWentOn ==
  obs.raised /\ ~obs.pending /\ wpc = "w139"

\* The worker dispatches a state-changed event posted by the pipeline itself.
PipelineStateChanged ==
  state_changed_cb /\ Head(bus).src = "pipeline"

\* C16: the recorded state and the state last reported through onStateChanged
\* change only in the worker's handler of a state-changed event whose source
\* is the pipeline, which sets both to the event's new state; every other step
\* (requests of the host, the end-of-stream and error handlers, events of
\* sub-stages) leaves them as they were.
C16_StateWrittenOnlyOnPipelineEvent ==
  /\ [][PipelineStateChanged =>
          (ahc'.state = Head(bus).new /\ obs'.reported = Head(bus).new)]_vars
  /\ [][~PipelineStateChanged =>
          (ahc'.state = ahc.state /\ obs'.reported = obs.reported)]_vars

\* An event of a sub-stage was dispatched and the pipeline's own events were
\* recorded and reported.
C16_SubStageEventDispatched ==
  /\ obs.subSeen /\ bus = <<>>
  /\ ahc.state = GST_STATE_PLAYING /\ obs.reported = GST_STATE_PLAYING

\* C17: whenever the worker delivers onError, NULL is already the target state
\* requested of the pipeline.
C17_NullRequestedBeforeOnError ==
  [][on_error_notify => obj.target = GST_STATE_NULL]_vars

\* C18: the end-of-stream handler changes one thing, the target state
\* requested of the pipeline, which becomes PAUSED: the pipeline objects, the
\* surface and its handles, the Session's fields and the running loop are left
\* as they were.
C18_EosRequestsPausedOnly ==
  [][eos_cb =>
       /\ obj' = [obj EXCEPT !.target = GST_STATE_PAUSED]
       /\ surf' = surf /\ ahc' = ahc
       /\ wpc' = "run" /\ obj'.is_running]_vars

\* An end-of-stream event was dispatched and the worker is in its loop.
C18_EosDispatched ==
  /\ obs.eosPosted >= 1 /\ bus = <<>>
  /\ obj.target = GST_STATE_PAUSED
  /\ wpc = "run" /\ obj.is_running /\ ~obj.destroyed

\* The steps of injectSurface and retractSurface after their entry test, each
\* of which reads or writes the Session through the pointer read at entry.
SurfaceBody(t) ==
  \/ gst_native_surface_init_release(t)
  \/ gst_native_surface_init_acquire(t)
  \/ gst_native_surface_init_bind(t)
  \/ gst_native_surface_init_check_init(t)
  \/ gst_native_surface_init_notify_init(t)
  \/ gst_native_surface_finalize_release(t)
  \/ gst_native_surface_finalize_clear(t)
  \/ gst_native_surface_finalize_unbind(t)

\* C19: on a Session whose worker was created, no step of an injectSurface or
\* retractSurface running on the surface thread reads or writes the Session
\* after stop() has freed it, and none of them binds or unbinds a rendering
\* stage the worker has already released.
C19_SurfaceCallsSafeAgainstStop ==
  /\ [][(SurfaceBody(SurfaceHost) /\ ~obs.threadFailed) => ~mem.freed]_vars
  /\ [][(\/ gst_native_surface_init_bind(SurfaceHost)
         \/ gst_native_surface_finalize_unbind(SurfaceHost))
          => ~(ahc.vsink /\ obj.destroyed)]_vars

\* C20: the thread a stop() is about to join is the worker of the Session it
\* stops, and a Session's block is freed only once its own worker has exited.
C20_StopJoinsOwnWorker ==
  /\ hpc[MainHost] = "f284" => (obs.threadFailed \/ mem.thread = OwnThread)
  /\ hpc[MainHost] = "o284" => mem.thread = OtherThread
  /\ mem.freed => (obs.threadFailed \/ wpc = "exited")
  /\ mem.other.freed => mem.other.wpc = "exited"

====
